---- MODULE Spec2Model ----
(***************************************************************************)
(* Model of stdlib_extensions.ext.subscription (the Subscribable mixin,    *)
(* subscribable_field, subscribable_method) and of                         *)
(* stdlib_extensions.collections.IdentifierDict.                           *)
(***************************************************************************)
EXTENDS Integers, Sequences, FiniteSets, TLC

VARIABLES
    phase,      \* "defining" | "failed" | "defined" | "live"
    cls,        \* name of the class under test
    klass,      \* the class object that the class statement created
    obj,        \* the instance: [cache, attrs, log]
    ctx,        \* stack of open `with self.suppressed()` frames (saved is_muted)
    last,       \* the last operation: [op, field, ev, exc, ret]
    rank,       \* observer: subscription order per (field, flag)
    entry,      \* observer: mute state seen by the caller on entering each open with-block
    _object_value_,     \* the dictionary an IdentifierDict wraps, in insertion order
    dres,       \* the last IdentifierDict operation: [op, bad, exc, ret]
    threads,    \* per thread: [pc, mutex, events, lock, exc]
    heap        \* objects shared by the threads: [mutex, events, regs, held]

subVars == <<phase, cls, klass, obj, ctx, last, rank, entry>>

dictVars == <<_object_value_, dres>>

concVars == <<threads, heap>>

vars == <<subVars, dictVars, concVars>>

----------------------------------------------------------------------------
(* Bounds *)

MaxDepth == 2       \* nesting of notifications before the interpreter raises RecursionError
MaxSubs  == 2       \* total registered (key, callback) pairs
MaxNest  == 2       \* nested with-blocks

----------------------------------------------------------------------------
(* EventFlag *)

ON_SET       == 4
ON_DEL       == 8
ON_CALL      == 16
ON_PRE_CALL  == 32
ON_POST_CALL == ON_CALL

\* Subscribable.__EVENT_FLAGS = tuple(int(f) for f in EventFlag): canonical members only
EVENT_FLAGS == <<ON_SET, ON_DEL, ON_CALL, ON_PRE_CALL>>

\* event_flags & flag, flag a power of two
HasBit(n, flag) == (n \div flag) % 2 = 1

\* a | b for bit masks built from distinct single flags
BitOr(a, b) == a + b - (IF a = b THEN a ELSE 0)

----------------------------------------------------------------------------
(* Python dictionaries as functions *)

Put(f, k, v) == [x \in (DOMAIN f) \cup {k} |-> IF x = k THEN v ELSE f[x]]

Ok(o) == [o |-> o, exc |-> "none", ret |-> "None"]

Raise(o, e) == [o |-> o, exc |-> e, ret |-> "None"]

----------------------------------------------------------------------------
(* The classes under test: the class statements that user code writes.     *)
(* Each class lists its base classes' linearisation and, in order, the     *)
(* members its body declares through subscribable_field and                *)
(* subscribable_method.                                                    *)

FieldDecl(name, fget, fset, fdel, on_set, on_del) ==
    [name |-> name, kind |-> "field", form |-> "direct", fn |-> name,
     fget |-> fget, fset |-> fset, fdel |-> fdel, on_a |-> on_set, on_b |-> on_del]

MethodDecl(name, form, on_pre_call, on_post_call) ==
    [name |-> name, kind |-> "method", form |-> form, fn |-> name,
     fget |-> FALSE, fset |-> FALSE, fdel |-> FALSE, on_a |-> on_pre_call, on_b |-> on_post_call]

ClassNames ==
    {"Base", "Child", "Other", "Deco", "Both", "Plain", "Called", "CalledBare", "Auto"}

\* class Base(Subscribable); class Child(Base); class Other(Subscribable);
\* class Deco(Subscribable); class Both(Base, Deco); class Plain(Subscribable); ...
MRO(c) ==
    CASE c = "Child" -> <<"Child", "Base">>
      [] c = "Both"  -> <<"Both", "Base", "Deco">>
      [] OTHER       -> <<c>>

\* Base:   x = subscribable_field()
\* Child:  def z(self): ...; z = subscribable_method(z, on_pre_call=True, on_post_call=True)
\* Other:  y = subscribable_field(fget, fset, fdel, on_set=True, on_del=True)
\* Deco:   @subscribable_method
\*         def m(self): ...
\* Called: @subscribable_method(on_pre_call=True)
\*         def z(self): ...
\* CalledBare: @subscribable_method()
\*         def z(self): ...
\* Auto:   x = subscribable_field(on_set=True, on_del=True)
\* Both and Plain declare no member
Body(c) ==
    CASE c = "Base"  -> << FieldDecl("x", FALSE, FALSE, FALSE, "None", "None") >>
      [] c = "Child" -> << MethodDecl("z", "direct", "True", "True") >>
      [] c = "Other" -> << FieldDecl("y", TRUE, TRUE, TRUE, "True", "True") >>
      [] c = "Deco"  -> << MethodDecl("m", "uncalled", "None", "None") >>
      [] c = "Called"     -> << MethodDecl("z", "called", "True", "None") >>
      [] c = "CalledBare" -> << MethodDecl("z", "called", "None", "None") >>
      [] c = "Auto"  -> << FieldDecl("x", FALSE, FALSE, FALSE, "True", "True") >>
      [] OTHER -> << >>

\* the classes whose method is written with the decorator syntax `@subscribable_method...`
DecoratedClasses == {"Deco", "Called", "CalledBare"}

----------------------------------------------------------------------------
(* Descriptors *)

Truthy(a) == a = "True"

\* _SubscribableField.__init__
FieldInit(d) ==
    [d EXCEPT !.on_a = IF d.on_a = "None" /\ d.on_b = "None" THEN TRUE ELSE Truthy(d.on_a),
              !.on_b = IF d.on_a = "None" /\ d.on_b = "None" THEN FALSE ELSE Truthy(d.on_b)]

\* _SubscribableMethod.__init__(fn, on_pre_call=, on_post_call=); fn is "None" when omitted
MethodInit(fn, d) ==
    [d EXCEPT !.fn = fn,
              !.on_a = IF d.on_a = "None" /\ d.on_b = "None" THEN FALSE ELSE Truthy(d.on_a),
              !.on_b = IF d.on_a = "None" /\ d.on_b = "None" THEN TRUE ELSE Truthy(d.on_b)]

\* _SubscribableMethod.__call__(fn): the descriptor applied to the decorated function
MethodCall(desc, fn) ==
    IF desc.fn # "None"
    THEN [exc |-> "none", desc |-> [desc EXCEPT !.fn = fn]]
    ELSE [exc |-> "TypeError", desc |-> desc]     \* self._fn(fn) with self._fn None

\* subscribable_field(...) / subscribable_method(...) as written in the class body
EvalDecl(d) ==
    IF d.kind = "field" THEN [exc |-> "none", desc |-> FieldInit(d)]
    ELSE IF d.form = "called" THEN MethodCall(MethodInit("None", d), d.fn)
    ELSE [exc |-> "none", desc |-> MethodInit(d.fn, d)]

NoAttr == [kind |-> "none", fa |-> 0, fb |-> 0, fget |-> FALSE, fset |-> FALSE, fdel |-> FALSE,
           notif |-> "", registered |-> FALSE]

\* _SubscribableField.__set_name__
Field__set_name__(d) ==
    LET flag_set == IF d.on_a THEN ON_SET ELSE 0
        flag_del == IF d.on_b THEN ON_DEL ELSE 0
    IN  IF ~(d.fget \/ d.fset \/ d.fdel)
        THEN IF flag_set = 0 /\ flag_del = 0
             THEN [exc |-> "none", attr |-> NoAttr]                 \* delattr(cls, name)
             ELSE [exc |-> "none",
                   attr |-> [kind |-> "auto", fa |-> flag_set, fb |-> flag_del,
                             fget |-> TRUE, fset |-> TRUE, fdel |-> TRUE,
                             notif |-> d.name, registered |-> TRUE]]
        ELSE IF flag_set = 0 /\ flag_del = 0
             THEN [exc |-> "none",
                   attr |-> [kind |-> "user", fa |-> 0, fb |-> 0,
                             fget |-> d.fget, fset |-> d.fset, fdel |-> d.fdel,
                             notif |-> d.name, registered |-> FALSE]]
             ELSE IF (flag_set # 0 /\ ~d.fset) \/ (flag_del # 0 /\ ~d.fdel)
                  THEN [exc |-> "ValueError", attr |-> NoAttr]
                  ELSE [exc |-> "none",
                        attr |-> [kind |-> "user", fa |-> flag_set, fb |-> flag_del,
                                  fget |-> d.fget, fset |-> d.fset, fdel |-> d.fdel,
                                  notif |-> d.name, registered |-> TRUE]]

\* _SubscribableMethod.__set_name__
Method__set_name__(d) ==
    LET flag_pre  == IF d.on_a THEN ON_PRE_CALL ELSE 0
        flag_post == IF d.on_b THEN ON_POST_CALL ELSE 0
    IN  IF flag_pre = 0 /\ flag_post = 0
        THEN [exc |-> "none",
              attr |-> [kind |-> "func", fa |-> 0, fb |-> 0,
                        fget |-> FALSE, fset |-> FALSE, fdel |-> FALSE,
                        notif |-> d.fn, registered |-> FALSE]]
        ELSE [exc |-> "none",
              attr |-> [kind |-> "method", fa |-> flag_pre, fb |-> flag_post,
                        fget |-> FALSE, fset |-> FALSE, fdel |-> FALSE,
                        notif |-> d.fn, registered |-> TRUE]]

\* the first exception raised by a sequence of steps ("none" when none raised)
FirstExc(rs) ==
    IF \E i \in DOMAIN rs : rs[i].exc # "none"
    THEN rs[CHOOSE i \in DOMAIN rs : rs[i].exc # "none" /\ \A j \in 1..(i-1) : rs[j].exc = "none"].exc
    ELSE "none"

OrElse(e1, e2) == IF e1 # "none" THEN e1 ELSE e2

\* the class statement: the body evaluates the decorators, ...
Descs(body) == [i \in DOMAIN body |-> EvalDecl(body[i])]

\* ... then type.__new__ calls __set_name__ on every descriptor
SetNames(descs) ==
    [i \in DOMAIN descs |->
        IF descs[i].desc.kind = "field" THEN Field__set_name__(descs[i].desc)
        ELSE Method__set_name__(descs[i].desc)]

\* cls.__dict__ restricted to the declared members
OwnAttrs(body, set_names) ==
    [n \in {body[i].name : i \in DOMAIN body} |->
        set_names[CHOOSE i \in DOMAIN body : body[i].name = n].attr]

\* the dictionary cls.__dict__['__event_fields__'].maps[0]: name -> flags
Registered(attrs) ==
    [n \in {m \in DOMAIN attrs : attrs[m].registered} |-> BitOr(attrs[n].fa, attrs[n].fb)]

ClassStatement(body, descs, set_names) ==
    [exc        |-> OrElse(FirstExc(descs), FirstExc(set_names)),
     attrs      |-> OwnAttrs(body, set_names),
     registered |-> Registered(OwnAttrs(body, set_names))]

\* every class's own dictionary
Own == [c \in ClassNames |-> ClassStatement(Body(c), Descs(Body(c)), SetNames(Descs(Body(c))))]

\* '__event_fields__' in cls.__dict__
HasOwn(c) == DOMAIN Own[c].registered # {}

\* the first class of a linearisation that satisfies has ("" when there is none)
FirstIn(mro, has) ==
    IF \E i \in DOMAIN mro : mro[i] \in has
    THEN mro[CHOOSE i \in DOMAIN mro : mro[i] \in has /\ \A j \in 1..(i-1) : mro[j] \notin has]
    ELSE ""

\* getattr(cls, '__event_fields__', None): the class in the MRO that owns the ChainMap
\* found by attribute lookup ("" when there is none)
EventFieldsOwner == [c \in ClassNames |-> FirstIn(MRO(c), {k \in ClassNames : HasOwn(k)})]

RECURSIVE ChainFrom(_, _, _)
\* for parent in cls.__mro__[1:]: append parent.__event_fields__.maps[0] unless present;
\* each map is named by the class whose dictionary it is
ChainFrom(mro, i, maps) ==
    IF i > Len(mro) THEN maps
    ELSE IF EventFieldsOwner[mro[i]] # "" /\ \A k \in DOMAIN maps : maps[k] # EventFieldsOwner[mro[i]]
         THEN ChainFrom(mro, i + 1, Append(maps, EventFieldsOwner[mro[i]]))
         ELSE ChainFrom(mro, i + 1, maps)

\* _set_subscribable_member: the maps of cls.__event_fields__ of a class with members
_set_subscribable_member(c) == ChainFrom(MRO(c), 2, <<c>>)

\* ChainMap as a mapping: the first map that has the key wins
ChainMap(maps) ==
    [n \in UNION {DOMAIN Own[maps[k]].registered : k \in DOMAIN maps} |->
        Own[maps[CHOOSE k \in DOMAIN maps :
                    /\ n \in DOMAIN Own[maps[k]].registered
                    /\ \A j \in 1..(k-1) : n \notin DOMAIN Own[maps[j]].registered]].registered[n]]

\* type(self).__event_fields__ (the empty mapping stands for a missing attribute)
event_fields ==
    [c \in ClassNames |->
        IF EventFieldsOwner[c] = "" THEN << >>
        ELSE ChainMap(_set_subscribable_member(EventFieldsOwner[c]))]

\* attribute lookup on the class through the MRO
ResolveAttr(c, name) ==
    IF FirstIn(MRO(c), {k \in ClassNames : name \in DOMAIN Own[k].attrs}) = "" THEN NoAttr
    ELSE Own[FirstIn(MRO(c), {k \in ClassNames : name \in DOMAIN Own[k].attrs})].attrs[name]

Names == {"x", "y", "z", "m", "q"}

\* the registry built by Subscribable.__events__: (field, flag) -> []
NewRegistry(fields) ==
    [k \in {k2 \in (DOMAIN fields) \X {EVENT_FLAGS[i] : i \in 1..Len(EVENT_FLAGS)} :
                HasBit(fields[k2[1]], k2[2])}
        |-> << >>]

\* the class objects, as the class statements leave them
Class ==
    [c \in ClassNames |->
        [exc          |-> Own[c].exc,
         owner        |-> EventFieldsOwner[c],
         event_fields |-> event_fields[c],
         registry     |-> NewRegistry(event_fields[c]),
         attrs        |-> [n \in Names |-> ResolveAttr(c, n)]]]

----------------------------------------------------------------------------
(* The instance *)

\* before the class statement has run there is no class object
NoClass ==
    [exc |-> "none", owner |-> "", event_fields |-> << >>, registry |-> << >>,
     attrs |-> [n \in Names |-> NoAttr]]

\* Object.__init__: self.__cache__ = {}
Fresh == [cache |-> << >>, attrs |-> << >>, log |-> << >>]

\* what getattr(subscribable, name) returns for a method
BoundMethod == 0

Values == {1, 2}

Callbacks == {"rec", "poke", "call"}

\* the value a "poke" callback assigns
PokeValue == 2

\* Subscribable.__mutex__
__mutex__(o) ==
    IF "__mutex__" \in DOMAIN o.cache THEN o
    ELSE [o EXCEPT !.cache = Put(@, "__mutex__", "Lock")]

\* Subscribable.__events__ (single thread); k is type(self)
__events__(o, k) ==
    IF "__events__" \in DOMAIN o.cache THEN Ok(o)
    ELSE IF k.owner = ""
    THEN Raise([__mutex__(o) EXCEPT !.cache = Put(@, "__events__", << >>)],
               "AttributeError")                        \* self.__event_fields__
    ELSE Ok([__mutex__(o) EXCEPT !.cache = Put(@, "__events__", k.registry)])

Registry(o) == o.cache["__events__"]

\* Subscribable._iter_queue_keys
_iter_queue_keys(field, event_flags) ==
    [i \in 1..Len(SelectSeq(EVENT_FLAGS, LAMBDA flag : HasBit(event_flags, flag))) |->
        <<field, SelectSeq(EVENT_FLAGS, LAMBDA flag : HasBit(event_flags, flag))[i]>>]

\* Subscribable.is_muted (property getter)
is_muted(o) ==
    IF "_is_muted" \in DOMAIN o.cache
    THEN [o |-> o, val |-> o.cache["_is_muted"]]
    ELSE [o |-> [o EXCEPT !.cache = Put(@, "_is_muted", FALSE)], val |-> FALSE]

\* Subscribable.mute
mute(o) == [o EXCEPT !.cache = Put(@, "_is_muted", TRUE)]

\* Subscribable.unmute
unmute(o) == [o EXCEPT !.cache = Put(@, "_is_muted", FALSE)]

\* Subscribable.suppressed, up to the yield
suppressed_enter(o) ==
    IF "_is_muted" \notin DOMAIN o.cache
    THEN [o |-> o, exc |-> "KeyError", saved |-> FALSE]
    ELSE [o |-> [o EXCEPT !.cache = Put(@, "_is_muted", TRUE)], exc |-> "none",
          saved |-> o.cache["_is_muted"]]

\* Subscribable.suppressed, the finally clause
suppressed_exit(o, saved) == [o EXCEPT !.cache = Put(@, "_is_muted", saved)]

\* getattr(self, name); a is the class attribute of that name
GetAttr(o, a, name) ==
    CASE a.kind = "auto" ->
            IF name \in DOMAIN o.cache
            THEN [exc |-> "none", val |-> o.cache[name]]
            ELSE [exc |-> "AttributeError", val |-> 0]
      [] a.kind = "user" /\ ~a.fget -> [exc |-> "AttributeError", val |-> 0]
      [] a.kind \in {"method", "func"} -> [exc |-> "none", val |-> BoundMethod]
      [] OTHER ->
            IF name \in DOMAIN o.attrs
            THEN [exc |-> "none", val |-> o.attrs[name]]
            ELSE [exc |-> "AttributeError", val |-> 0]

Logged(o, d, cb, field, ev, val) ==
    [o EXCEPT !.log = Append(@, [d |-> d, cb |-> cb, field |-> field, ev |-> ev, val |-> val])]

\* the member a "poke" callback assigns and the member a "call" callback calls
PokeTarget(k) == IF k.attrs["x"].kind # "none" THEN "x" ELSE "y"

CallTarget(k) == IF k.attrs["z"].kind # "none" THEN "z" ELSE "m"

----------------------------------------------------------------------------
(* Calls.  A call that is running is a frame on the interpreter's stack; a  *)
(* machine is the instance, its class, the stack (innermost frame first),   *)
(* the exception being propagated and the value returned to the caller.     *)

Frame(kind, name, ev, d) ==
    [kind |-> kind, name |-> name, ev |-> ev, d |-> d,
     flag |-> 1, i |-> 1, cb |-> "", val |-> 0, saved |-> FALSE]

Push(m, frames) == [m EXCEPT !.stack = frames \o @]

Throw(m, e) == [m EXCEPT !.exc = e]

\* a setter that notifies without storing the value
SetAttrNoStore(m, f, a) ==
    IF f.d > MaxDepth THEN Throw(m, "RecursionError")
    ELSE IF a.kind \in {"auto", "user"} /\ a.fa # 0
    THEN Push(m, <<Frame("notify", a.notif, a.fa, f.d)>>)
    ELSE m

\* the generated / wrapped setter of a subscribable field: setattr(self, name, value);
\* a is the class attribute of that name
SetAttr(m, f, a) ==
    IF f.d > MaxDepth THEN Throw(m, "RecursionError")
    ELSE CASE a.kind = "auto" ->
                [m EXCEPT !.o.cache = Put(@, f.name, f.val),
                          !.stack = IF a.fa # 0
                                    THEN <<Frame("notify", a.notif, a.fa, f.d)>> \o @ ELSE @]
           [] a.kind = "user" /\ a.fset ->
                [m EXCEPT !.o.attrs = Put(@, f.name, f.val),
                          !.stack = IF a.fa # 0
                                    THEN <<Frame("notify", a.notif, a.fa, f.d)>> \o @ ELSE @]
           [] a.kind = "user" /\ ~a.fset -> Throw(m, "AttributeError")
           [] OTHER -> [m EXCEPT !.o.attrs = Put(@, f.name, f.val)]

\* a mapping without one of its keys
Without(d, key) == [n \in DOMAIN d \ {key} |-> d[n]]

\* the generated / wrapped deleter of a subscribable field: delattr(self, name); a is
\* the class attribute of that name.  The generated deleter is compiled from
\* `del self.__cache__[x]` for a field x: the field's name is written as a variable, and
\* the module of the class has no variable of that name
DelAttr(m, f, a) ==
    IF a.kind = "auto" THEN Throw(m, "NameError")
    ELSE IF a.kind = "user" /\ ~a.fdel THEN Throw(m, "AttributeError")
    ELSE IF f.name \notin DOMAIN m.o.attrs THEN Throw(m, "AttributeError")
    ELSE [m EXCEPT !.o.attrs = Without(@, f.name),
                   !.stack = IF a.kind = "user" /\ a.fb # 0
                             THEN <<Frame("notify", a.notif, a.fb, f.d)>> \o @ ELSE @]

\* a method wrapper that runs the body before the pre-call notification
CallMethodBodyFirst(m, f, a) ==
    IF f.d > MaxDepth THEN Throw(m, "RecursionError")
    ELSE IF a.kind \notin {"method", "func"} THEN Throw(m, "AttributeError")
    ELSE Push(m, <<Frame("body", f.name, 0, f.d)>>
                 \o (IF a.fa # 0 THEN <<Frame("notify", a.notif, a.fa, f.d)>> ELSE << >>)
                 \o (IF a.fb # 0 THEN <<Frame("notify", a.notif, a.fb, f.d)>> ELSE << >>)
                 \o (IF f.d = 0 THEN <<Frame("return", f.name, 0, f.d)>> ELSE << >>))

\* the method generated by _SubscribableMethod.__set_name__:
\* notify(pre); res = _fn(self); notify(post); return res
CallMethod(m, f, a) ==
    IF f.d > MaxDepth THEN Throw(m, "RecursionError")
    ELSE IF a.kind \notin {"method", "func"} THEN Throw(m, "AttributeError")
    ELSE Push(m, (IF a.fa # 0 THEN <<Frame("notify", a.notif, a.fa, f.d)>> ELSE << >>)
                 \o <<Frame("body", f.name, 0, f.d)>>
                 \o (IF a.fb # 0 THEN <<Frame("notify", a.notif, a.fb, f.d)>> ELSE << >>)
                 \o (IF f.d = 0 THEN <<Frame("return", f.name, 0, f.d)>> ELSE << >>))

\* a notify that does not look at the mute state
notifyMuted(m, f, mu) ==
    [m EXCEPT !.o = mu.o, !.stack = <<[f EXCEPT !.kind = "_notify"]>> \o @]

\* Subscribable.notify; mu is what self.is_muted returned
notify(m, f, mu) ==
    [m EXCEPT !.o = mu.o,
              !.stack = IF mu.val THEN @ ELSE <<[f EXCEPT !.kind = "_notify"]>> \o @]

\* Subscribable.notify_once
notify_once(m, f, mu) ==
    [m EXCEPT !.o = mu.o,
              !.stack = IF mu.val THEN @ ELSE <<[f EXCEPT !.kind = "suppressed"]>> \o @]

\* a with-block that does not mute the instance
suppressedUnmuted(m, f, s) ==
    IF s.exc # "none" THEN Throw(m, s.exc)
    ELSE Push(m, <<[f EXCEPT !.kind = "_notify"], [f EXCEPT !.kind = "finally", !.saved = s.saved]>>)

\* with self.suppressed(): self._notify(field, event_flags)
suppressed(m, f, s) ==
    IF s.exc # "none" THEN Throw(m, s.exc)
    ELSE [m EXCEPT !.o = s.o,
                   !.stack = <<[f EXCEPT !.kind = "_notify"],
                               [f EXCEPT !.kind = "finally", !.saved = s.saved]>> \o @]

\* Subscribable._notify: events = self.__events__
_notify(m, f, e) ==
    IF e.exc # "none" THEN Throw([m EXCEPT !.o = e.o], e.exc)
    ELSE [m EXCEPT !.o = e.o, !.stack = <<[f EXCEPT !.kind = "flags", !.flag = 1]>> \o @]

\* for flag in __flags: if event_flags & flag: queue = events[field, flag] ...
NotifyFlags(m, f) ==
    IF f.flag > Len(EVENT_FLAGS) THEN m
    ELSE IF ~HasBit(f.ev, EVENT_FLAGS[f.flag]) THEN Push(m, <<[f EXCEPT !.flag = @ + 1]>>)
    ELSE IF <<f.name, EVENT_FLAGS[f.flag]>> \notin DOMAIN Registry(m.o)
    THEN Throw(m, "ValueError")
    ELSE Push(m, <<[f EXCEPT !.kind = "queue", !.i = 1], [f EXCEPT !.flag = @ + 1]>>)

\* for callback in queue: callback(self, field, event_flags)
RunQueue(m, f, queue) ==
    IF f.i > Len(queue) THEN m
    ELSE Push(m, <<[f EXCEPT !.kind = "callback", !.cb = queue[f.i]], [f EXCEPT !.i = @ + 1]>>)

\* a subscriber: callback(subscribable, field, event) reads the member, records what it
\* saw, and then (poke) assigns a subscribable field or (call) calls a subscribable method
Callback(m, f, g) ==
    IF g.exc # "none" THEN Throw(m, g.exc)
    ELSE [m EXCEPT !.o = Logged(@, f.d, f.cb, f.name, f.ev, g.val),
                   !.stack =
                      CASE f.cb = "poke" ->
                              <<[Frame("setattr", PokeTarget(m.k), 0, f.d + 1)
                                    EXCEPT !.val = PokeValue]>> \o @
                        [] f.cb = "call" -> <<Frame("call", CallTarget(m.k), 0, f.d + 1)>> \o @
                        [] OTHER -> @]

\* one step of the innermost call
Dispatch(m, f) ==
    CASE f.kind = "setattr"     -> SetAttr(m, f, m.k.attrs[f.name])
      [] f.kind = "delattr"     -> DelAttr(m, f, m.k.attrs[f.name])
      [] f.kind = "call"        -> CallMethod(m, f, m.k.attrs[f.name])
      [] f.kind = "body"        -> [m EXCEPT !.o = Logged(@, f.d, "body", f.name, 0, BoundMethod)]
      [] f.kind = "return"      -> [m EXCEPT !.ret = "3.14"]
      [] f.kind = "notify"      -> notify(m, f, is_muted(m.o))
      [] f.kind = "notify_once" -> notify_once(m, f, is_muted(m.o))
      [] f.kind = "suppressed"  -> suppressed(m, f, suppressed_enter(m.o))
      [] f.kind = "finally"     -> [m EXCEPT !.o = suppressed_exit(@, f.saved)]
      [] f.kind = "_notify"     -> _notify(m, f, __events__(m.o, m.k))
      [] f.kind = "flags"       -> NotifyFlags(m, f)
      [] f.kind = "queue"       -> RunQueue(m, f, Registry(m.o)[<<f.name, EVENT_FLAGS[f.flag]>>])
      [] f.kind = "callback"    -> Callback(m, f, GetAttr(m.o, m.k.attrs[f.name], f.name))

\* an exception leaves the innermost call; a finally clause on its way runs
Unwind(m, f) ==
    [m EXCEPT !.stack = Tail(@),
              !.o = IF f.kind = "finally" THEN suppressed_exit(@, f.saved) ELSE @]

Step(m) ==
    IF m.exc # "none" THEN Unwind(m, Head(m.stack))
    ELSE Dispatch([m EXCEPT !.stack = Tail(@)], Head(m.stack))

RECURSIVE Exec(_)
\* run until the outermost call has returned or raised
Exec(m) == IF Len(m.stack) = 0 THEN m ELSE Exec(Step(m))

\* a call made by user code on instance o of class k, run to its end
Run(o, k, f) == Exec([o |-> o, k |-> k, stack |-> <<f>>, exc |-> "none", ret |-> "None"])

----------------------------------------------------------------------------
(* Subscriptions *)

InSeq(q, x) == \E i \in 1..Len(q) : q[i] = x

\* list.remove: removes the first occurrence
Remove(q, x) ==
    [j \in 1..(Len(q) - 1) |->
        IF \E i \in 1..j : q[i] = x THEN q[j + 1] ELSE q[j]]

\* a subscription added at the wrong end of the queue
appendFront(q, x) == <<x>> \o q

\* list.append
append(q, x) == Append(q, x)

RECURSIVE SubscribeKeys(_, _, _, _)
\* the loop of Subscribable.subscribe
SubscribeKeys(o, keys, i, cb) ==
    IF i > Len(keys) THEN Ok(o)
    ELSE IF keys[i] \notin DOMAIN Registry(o) THEN Raise(o, "ValueError")
    ELSE SubscribeKeys(
            [o EXCEPT !.cache["__events__"][keys[i]] = IF InSeq(@, cb) THEN @ ELSE append(@, cb)],
            keys, i + 1, cb)

\* Subscribable.subscribe after `events = self.__events__`
SubscribeIn(e, keys, cb) == IF e.exc # "none" THEN e ELSE SubscribeKeys(e.o, keys, 1, cb)

\* Subscribable.subscribe
subscribe(o, k, field, ev, cb) ==
    SubscribeIn(__events__(__mutex__(o), k), _iter_queue_keys(field, ev), cb)

RECURSIVE UnsubscribeKeys(_, _, _, _)
\* the loop of Subscribable.unsubscribe
UnsubscribeKeys(o, keys, i, cb) ==
    IF i > Len(keys) THEN Ok(o)
    ELSE IF keys[i] \notin DOMAIN Registry(o) THEN Raise(o, "ValueError")
    ELSE UnsubscribeKeys(
            [o EXCEPT !.cache["__events__"][keys[i]] = IF InSeq(@, cb) THEN Remove(@, cb) ELSE @],
            keys, i + 1, cb)

\* Subscribable.unsubscribe after `events = self.__events__`
UnsubscribeIn(e, keys, cb) == IF e.exc # "none" THEN e ELSE UnsubscribeKeys(e.o, keys, 1, cb)

\* Subscribable.unsubscribe
unsubscribe(o, k, field, ev, cb) ==
    UnsubscribeIn(__events__(__mutex__(o), k), _iter_queue_keys(field, ev), cb)

\* Subscribable.unsubscribe_all after `events = self.__events__`
ClearQueues(e, k, field, ev) ==
    IF e.exc # "none" THEN e
    ELSE IF field = "None" /\ ev = 0
    THEN Ok([e.o EXCEPT !.cache["__events__"] = [key \in DOMAIN @ |-> << >>]])
    ELSE IF field = "None" /\ k.owner = ""
    THEN Raise(e.o, "AttributeError")          \* type(self).__event_fields__
    ELSE Ok([e.o EXCEPT !.cache["__events__"] =
                [key \in DOMAIN @ |->
                    IF /\ key[1] \in (IF field = "None" THEN DOMAIN k.event_fields ELSE {field})
                       /\ (ev = 0 \/ HasBit(ev, key[2]))
                    THEN << >> ELSE @[key]]])

\* Subscribable.unsubscribe_all; field is "None" when omitted
unsubscribe_all(o, k, field, ev) == ClearQueues(__events__(__mutex__(o), k), k, field, ev)

(* Observers (not program state) *)

AllKeys == Names \X {EVENT_FLAGS[i] : i \in 1..Len(EVENT_FLAGS)}

\* the caller's view of the mute state: `self.is_muted`
Muted(o) == "_is_muted" \in DOMAIN o.cache /\ o.cache["_is_muted"]

HasRegistry(o) == "__events__" \in DOMAIN o.cache

Queue(o, key) == IF HasRegistry(o) /\ key \in DOMAIN Registry(o) THEN Registry(o)[key] ELSE << >>

TotalSubs(o) ==
    IF HasRegistry(o)
    THEN Cardinality({<<k, i>> \in (DOMAIN Registry(o)) \X (1..Cardinality(Callbacks)) :
                        i <= Len(Registry(o)[k])})
    ELSE 0

\* the keys of a subscribe / unsubscribe call that the call reached before it returned
\* or raised: the requested keys up to the first one the instance does not support
Reached(o, field, ev) ==
    LET keys == _iter_queue_keys(field, ev)
    IN  {keys[i] : i \in {j \in 1..Len(keys) :
                            HasRegistry(o) /\ \A k \in 1..j : keys[k] \in DOMAIN Registry(o)}}

\* rank[key][cb] = position of cb among the callbacks currently subscribed to key,
\* by the time of their latest subscription
RankSubscribe(rk, ks, cb) ==
    [k \in AllKeys |->
        IF k \in ks /\ cb \notin DOMAIN rk[k]
        THEN Put(rk[k], cb, Cardinality(DOMAIN rk[k]) + 1)
        ELSE rk[k]]

RankUnsubscribe(rk, ks, cb) ==
    [k \in AllKeys |->
        IF k \in ks /\ cb \in DOMAIN rk[k]
        THEN [x \in (DOMAIN rk[k]) \ {cb} |->
                IF rk[k][x] > rk[k][cb] THEN rk[k][x] - 1 ELSE rk[k][x]]
        ELSE rk[k]]

RankClear(rk, field, ev) ==
    [k \in AllKeys |->
        IF (field = "None" \/ k[1] = field) /\ (ev = 0 \/ HasBit(ev, k[2]))
        THEN << >> ELSE rk[k]]

----------------------------------------------------------------------------
(* Inputs *)

BOTH_SET_DEL == BitOr(ON_SET, ON_DEL)

BOTH_CALLS   == BitOr(ON_CALL, ON_PRE_CALL)

\* the (member name, event flags) arguments tried on an instance of class c: every
\* pair its class statement and those of its base classes enable, a bit mask of two
\* enabled types, an event type that is not enabled on the member, an unknown name
Inputs(c) ==
    CASE c = "Base"  -> {<<"x", ON_SET>>, <<"x", ON_DEL>>, <<"q", ON_SET>>}
      [] c = "Child" -> {<<"x", ON_SET>>, <<"z", ON_CALL>>, <<"z", ON_PRE_CALL>>,
                         <<"z", BOTH_CALLS>>, <<"q", ON_SET>>}
      [] c = "Other" -> {<<"y", ON_SET>>, <<"y", ON_DEL>>, <<"y", BOTH_SET_DEL>>,
                         <<"y", ON_CALL>>, <<"q", ON_SET>>}
      [] c = "Deco"  -> {<<"m", ON_CALL>>, <<"m", ON_PRE_CALL>>, <<"m", BOTH_CALLS>>,
                         <<"q", ON_SET>>}
      [] c = "Both"  -> {<<"x", ON_SET>>, <<"m", ON_CALL>>, <<"q", ON_SET>>}
      [] c = "Auto"  -> {<<"x", ON_SET>>, <<"x", ON_DEL>>, <<"x", BOTH_SET_DEL>>,
                         <<"q", ON_SET>>}
      [] OTHER       -> {<<"q", ON_SET>>}

\* the arguments of unsubscribe_all: (None, 0), (None, flags), (name, 0), (name, flags)
ClearInputs(c) ==
    {<<"None", 0>>, <<"None", ON_SET>>} \cup Inputs(c) \cup {<<k[1], 0>> : k \in Inputs(c)}

Properties(k) == {n \in Names : k.attrs[n].kind \in {"auto", "user"}}

Methods(k) == {n \in Names : k.attrs[n].kind \in {"method", "func"}}

NoOp == [op |-> "none", field |-> "", ev |-> 0, exc |-> "none", ret |-> "None"]

Did(op, field, ev, r) ==
    [op |-> op, field |-> field, ev |-> ev, exc |-> r.exc, ret |-> r.ret]

Begin(o) == [o EXCEPT !.log = << >>]

----------------------------------------------------------------------------
(* IdentifierDict.  A string is a sequence of characters; the dictionary is *)
(* a sequence of entries [k, v] in insertion order.                         *)

MaxLen   == 2       \* every string of at most this many characters is tried as a key
MaxItems == 2       \* entries in the dictionary

Chars == {"a", "A", "1", "_", " ", "-"}

\* longer keys: inner whitespace, a character that no identifier has, surrounding and
\* repeated whitespace, digits around whitespace
LongKeys ==
    { <<"a", " ", "a">>, <<"a", "-", "a">>, <<" ", "a", " ">>, <<"1", " ", "1">>,
      <<"A", " ", " ", "a">> }

Keys == UNION {[1..n -> Chars] : n \in 0..MaxLen} \cup LongKeys

\* the keys of a two-item update
FirstKeys == { <<"a">>, <<"A">>, <<"-">>, <<"a", " ", "a">> }

SecondKeys == { <<"a">>, <<"1">>, <<"-">>, << >> }

DictValues == {1, 2}

None == 0

\* str.isspace, str.isalpha on one character
isspace(c) == c = " "

isalpha(c) == c \in {"a", "A"}

\* str.isidentifier
isidentifier(k) ==
    /\ Len(k) > 0
    /\ k[1] \in {"a", "A", "_"}
    /\ \A i \in 2..Len(k) : k[i] \in {"a", "A", "_", "1"}

\* str.strip()
strip(s) ==
    IF \A i \in DOMAIN s : isspace(s[i]) THEN << >>
    ELSE SubSeq(s,
                CHOOSE i \in DOMAIN s : ~isspace(s[i]) /\ \A j \in 1..(i - 1) : isspace(s[j]),
                CHOOSE i \in DOMAIN s : ~isspace(s[i]) /\ \A j \in (i + 1)..Len(s) : isspace(s[j]))

\* the length of the word that s starts with
WordLen(s) ==
    CHOOSE n \in 1..Len(s) :
        /\ \A i \in 1..n : ~isspace(s[i])
        /\ n = Len(s) \/ isspace(s[n + 1])

RECURSIVE split(_)
\* str.split(): the words between runs of whitespace
split(s) ==
    IF Len(s) = 0 THEN << >>
    ELSE IF isspace(s[1]) THEN split(Tail(s))
    ELSE <<SubSeq(s, 1, WordLen(s))>> \o split(SubSeq(s, WordLen(s) + 1, Len(s)))

RECURSIVE join(_, _)
\* sep.join(words)
join(sep, words) ==
    IF Len(words) = 0 THEN << >>
    ELSE IF Len(words) = 1 THEN words[1]
    ELSE words[1] \o sep \o join(sep, Tail(words))

\* a key kept in the case it was written in
keepcase(s) == s

\* str.casefold()
casefold(s) == [i \in DOMAIN s |-> IF s[i] = "A" THEN "a" ELSE s[i]]

\* str.replace(old, new) for single characters
replace(s, old, new) == [i \in DOMAIN s |-> IF s[i] = old THEN new ELSE s[i]]

\* k = ' '.join(key.strip().split()).casefold().replace(' ', '_')
Normalised(key) == replace(casefold(join(<<" ">>, split(strip(key)))), " ", "_")

\* if not k[0].isalpha(): k = '_' + k
Prefixed(k) == IF isalpha(k[1]) THEN k ELSE <<"_">> \o k

\* a key accepted without looking at it
Unchecked(k) == [exc |-> "none", key |-> k]

\* if not k.isidentifier(): raise ValueError
Checked(k) ==
    IF isidentifier(k) THEN [exc |-> "none", key |-> k] ELSE [exc |-> "ValueError", key |-> k]

\* IdentifierDict._format_key; k[0] of the empty string raises IndexError
_format_key(key) ==
    IF Len(Normalised(key)) = 0 THEN [exc |-> "ValueError", key |-> << >>]
    ELSE Checked(Prefixed(Normalised(key)))

\* self._format_key(key) for every key that is tried
Formatted == [key \in Keys |-> _format_key(key)]

\* the built-in dict
HasKey(d, k) == \E i \in DOMAIN d : d[i].k = k

DictGet(d, k) == d[CHOOSE i \in DOMAIN d : d[i].k = k].v

DictSet(d, k, v) ==
    IF HasKey(d, k) THEN [i \in DOMAIN d |-> IF d[i].k = k THEN [k |-> k, v |-> v] ELSE d[i]]
    ELSE Append(d, [k |-> k, v |-> v])

DictDel(d, k) == SelectSeq(d, LAMBDA e : e.k # k)

RECURSIVE DictOf(_, _)
\* dict(m) for an iterable of pairs
DictOf(d, pairs) ==
    IF Len(pairs) = 0 THEN d ELSE DictOf(DictSet(d, pairs[1].k, pairs[1].v), Tail(pairs))

Res(d, exc, ret) == [d |-> d, exc |-> exc, ret |-> ret]

\* KeyItemSet.__setitem__; r is what self._format_key(key) did
__setitem__(d, r, v) ==
    IF r.exc # "none" THEN Res(d, r.exc, None) ELSE Res(DictSet(d, r.key, v), "none", None)

RECURSIVE UpdateFrom(_, _)
\* KeyItemSet.update: dict.update consumes the generator of formatted items one by one
UpdateFrom(d, m) ==
    IF Len(m) = 0 THEN Res(d, "none", None)
    ELSE IF Formatted[m[1].k].exc # "none" THEN Res(d, Formatted[m[1].k].exc, None)
    ELSE UpdateFrom(DictSet(d, Formatted[m[1].k].key, m[1].v), Tail(m))

update(d, pairs) == UpdateFrom(d, DictOf(<< >>, pairs))

\* KeyItemGet.__getitem__
__getitem__(d, r) ==
    IF r.exc # "none" THEN Res(d, r.exc, None)
    ELSE IF ~HasKey(d, r.key) THEN Res(d, "KeyError", None)
    ELSE Res(d, "none", DictGet(d, r.key))

\* KeyItemGet.get
get(d, r) ==
    IF r.exc # "none" THEN Res(d, r.exc, None)
    ELSE IF ~HasKey(d, r.key) THEN Res(d, "none", None)
    ELSE Res(d, "none", DictGet(d, r.key))

\* KeyItemDel.__delitem__
__delitem__(d, r) ==
    IF r.exc # "none" THEN Res(d, r.exc, None)
    ELSE IF ~HasKey(d, r.key) THEN Res(d, "KeyError", None)
    ELSE Res(DictDel(d, r.key), "none", None)

\* KeyItemDel.pop without a default
pop(d, r) ==
    IF r.exc # "none" THEN Res(d, r.exc, None)
    ELSE IF ~HasKey(d, r.key) THEN Res(d, "KeyError", None)
    ELSE Res(DictDel(d, r.key), "none", DictGet(d, r.key))

\* KeyItemDel.popitem: the entry inserted last
popitem(d) ==
    IF Len(d) = 0 THEN Res(d, "KeyError", None)
    ELSE Res(SubSeq(d, 1, Len(d) - 1), "none", d[Len(d)].v)

\* KeyItemDel.clear
clear(d) == Res(<< >>, "none", None)

\* observer: no identifier can be made of the key: it has no character that is not
\* whitespace, or it has a character that is neither whitespace nor allowed in identifiers
Unformattable(key) ==
    \/ \A i \in DOMAIN key : isspace(key[i])
    \/ \E i \in DOMAIN key : key[i] \notin {"a", "A", "1", "_", " "}

NoRes == [op |-> "none", bad |-> FALSE, exc |-> "none", ret |-> None]

DidDict(op, bad, r) == [op |-> op, bad |-> bad, exc |-> r.exc, ret |-> r.ret]

\* IdentifierDict(): self._object_value_ = {}; self.update(None)
InitDict ==
    /\ _object_value_ = << >>
    /\ dres = NoRes

SetItem(key, v) ==
    /\ \E r \in {__setitem__(_object_value_, Formatted[key], v)} :
            /\ Len(r.d) <= MaxItems
            /\ _object_value_' = r.d
            /\ dres' = DidDict("setitem", Unformattable(key), r)
    /\ UNCHANGED <<subVars, concVars>>

\* d.update([(k1, v1), (k2, v2)])
Update(k1, v1, k2, v2) ==
    /\ \E r \in {update(_object_value_, << [k |-> k1, v |-> v1], [k |-> k2, v |-> v2] >>)} :
            /\ Len(r.d) <= MaxItems
            /\ _object_value_' = r.d
            /\ dres' = DidDict("update", Unformattable(k1) \/ Unformattable(k2), r)
    /\ UNCHANGED <<subVars, concVars>>

GetItem(key) ==
    /\ \E r \in {__getitem__(_object_value_, Formatted[key])} :
            /\ _object_value_' = r.d
            /\ dres' = DidDict("getitem", Unformattable(key), r)
    /\ UNCHANGED <<subVars, concVars>>

Get(key) ==
    /\ \E r \in {get(_object_value_, Formatted[key])} :
            /\ _object_value_' = r.d
            /\ dres' = DidDict("get", Unformattable(key), r)
    /\ UNCHANGED <<subVars, concVars>>

DelItem(key) ==
    /\ \E r \in {__delitem__(_object_value_, Formatted[key])} :
            /\ _object_value_' = r.d
            /\ dres' = DidDict("delitem", Unformattable(key), r)
    /\ UNCHANGED <<subVars, concVars>>

Pop(key) ==
    /\ \E r \in {pop(_object_value_, Formatted[key])} :
            /\ _object_value_' = r.d
            /\ dres' = DidDict("pop", Unformattable(key), r)
    /\ UNCHANGED <<subVars, concVars>>

PopItem ==
    /\ \E r \in {popitem(_object_value_)} :
            /\ _object_value_' = r.d
            /\ dres' = DidDict("popitem", FALSE, r)
    /\ UNCHANGED <<subVars, concVars>>

Clear ==
    /\ \E r \in {clear(_object_value_)} :
            /\ _object_value_' = r.d
            /\ dres' = DidDict("clear", FALSE, r)
    /\ UNCHANGED <<subVars, concVars>>

NextDict ==
    \/ \E key \in Keys, v \in DictValues : SetItem(key, v)
    \/ \E k1 \in FirstKeys, k2 \in SecondKeys : Update(k1, 1, k2, 2)
    \/ \E key \in Keys : GetItem(key)
    \/ \E key \in Keys : Get(key)
    \/ \E key \in Keys : DelItem(key)
    \/ \E key \in Keys : Pop(key)
    \/ PopItem
    \/ Clear

\* Two operations in a row.  The record of an operation keeps its key and value, the
\* length of the dictionary before it, and the assignment that came just before it.
CaseKeys ==
    { <<"a">>, <<"A">>, <<" ", "a">>, <<"a", " ">>, <<"a", "A">>, <<"A", "a">>,
      <<"a", " ", "a">>, <<"A", " ", " ", "a">>, <<" ", "a", " ">>,
      <<"1">>, <<" ", "1">>, <<"_">>, <<"-">>, << >> }

NoSet == [key |-> << >>, val |-> None]

\* the operation before was d[key] = val, and it returned
JustSet ==
    IF dres.op = "setitem" /\ dres.exc = "none" THEN [key |-> dres.key, val |-> dres.val]
    ELSE NoSet

DidKey(op, key, v, r) ==
    [op |-> op, bad |-> Unformattable(key), exc |-> r.exc, ret |-> r.ret,
     key |-> key, val |-> v, n |-> Len(_object_value_), prev |-> JustSet]

InitKeyed ==
    /\ _object_value_ = << >>
    /\ dres = [op |-> "none", bad |-> FALSE, exc |-> "none", ret |-> None,
               key |-> << >>, val |-> None, n |-> 0, prev |-> NoSet]

\* d[key] = v
SetItemKey(key, v) ==
    /\ \E r \in {__setitem__(_object_value_, Formatted[key], v)} :
            /\ Len(r.d) <= MaxItems
            /\ _object_value_' = r.d
            /\ dres' = DidKey("setitem", key, v, r)
    /\ UNCHANGED <<subVars, concVars>>

\* d[key]
GetItemKey(key) ==
    /\ \E r \in {__getitem__(_object_value_, Formatted[key])} :
            /\ _object_value_' = r.d
            /\ dres' = DidKey("getitem", key, None, r)
    /\ UNCHANGED <<subVars, concVars>>

\* d.get(key)
GetKey(key) ==
    /\ \E r \in {get(_object_value_, Formatted[key])} :
            /\ _object_value_' = r.d
            /\ dres' = DidKey("get", key, None, r)
    /\ UNCHANGED <<subVars, concVars>>

\* del d[key]
DelItemKey(key) ==
    /\ \E r \in {__delitem__(_object_value_, Formatted[key])} :
            /\ _object_value_' = r.d
            /\ dres' = DidKey("delitem", key, None, r)
    /\ UNCHANGED <<subVars, concVars>>

NextCase ==
    \/ \E key \in CaseKeys, v \in DictValues : SetItemKey(key, v)
    \/ \E key \in CaseKeys : GetItemKey(key)
    \/ \E key \in CaseKeys : GetKey(key)
    \/ \E key \in CaseKeys : DelItemKey(key)

----------------------------------------------------------------------------
(* Threads.  Each thread calls subscribe("x", ON_SET, callback) on one       *)
(* instance of class Base that no thread has used before.  The interpreter  *)
(* switches threads between any two accesses to the instance's __cache__.   *)

MaxThreads == 2

Threads == 1..MaxThreads

\* the callback a thread subscribes
CallbackOf(t) == <<"cb", t>>

SharedKey == <<"x", ON_SET>>

\* type(self).__event_fields__ of class Base as (field, flag) pairs
SharedKeys == DOMAIN Class["Base"].registry

NoThread == [pc |-> "idle", mutex |-> 0, events |-> 0, lock |-> 0, exc |-> "none"]

\* self.__cache__ = {}: no '__mutex__', no '__events__'; no lock and no registry exists
InitConc ==
    /\ threads = [t \in Threads |-> NoThread]
    /\ heap = [mutex |-> 0, events |-> 0, regs |-> << >>, held |-> [l \in Threads |-> 0]]

At(t, pc) == threads[t].pc = pc

Goto(t, pc) == [threads EXCEPT ![t].pc = pc]

\* subscribe is called
Start(t) ==
    /\ At(t, "idle")
    /\ threads' = Goto(t, "mutex_get")
    /\ UNCHANGED <<heap, subVars, dictVars>>

\* __mutex__: try: return self.__cache__['__mutex__']
MutexGet(t) ==
    /\ At(t, "mutex_get")
    /\ threads' = IF heap.mutex # 0
                  THEN [threads EXCEPT ![t].pc = "events_get", ![t].mutex = heap.mutex]
                  ELSE Goto(t, "mutex_new")
    /\ UNCHANGED <<heap, subVars, dictVars>>

\* __mutex__: mutex = self.__cache__['__mutex__'] = threading.Lock()
MutexNew(t) ==
    /\ At(t, "mutex_new")
    /\ heap' = [heap EXCEPT !.mutex = t]
    /\ threads' = [threads EXCEPT ![t].pc = "events_get", ![t].mutex = t]
    /\ UNCHANGED <<subVars, dictVars>>

\* __events__: try: return self.__cache__['__events__']
EventsGet(t) ==
    /\ At(t, "events_get")
    /\ threads' = IF heap.events # 0
                  THEN [threads EXCEPT ![t].pc = "lookup", ![t].events = heap.events]
                  ELSE Goto(t, "init_mutex")
    /\ UNCHANGED <<heap, subVars, dictVars>>

\* __events__: with self.__mutex__ -- the property is read again
InitMutex(t) ==
    /\ At(t, "init_mutex")
    /\ threads' = [threads EXCEPT ![t].pc = "init_acquire", ![t].lock = heap.mutex]
    /\ UNCHANGED <<heap, subVars, dictVars>>

\* __events__: with self.__mutex__ -- the lock is acquired
InitAcquire(t) ==
    /\ At(t, "init_acquire")
    /\ heap.held[threads[t].lock] = 0
    /\ heap' = [heap EXCEPT !.held[threads[t].lock] = t]
    /\ threads' = Goto(t, "init_new")
    /\ UNCHANGED <<subVars, dictVars>>

\* __events__: cache = self.__cache__['__events__'] = {}
InitNew(t) ==
    /\ At(t, "init_new")
    /\ heap' = [heap EXCEPT !.regs = Append(@, << >>), !.events = Len(heap.regs) + 1]
    /\ threads' = [threads EXCEPT ![t].pc = "init_fill", ![t].events = Len(heap.regs) + 1]
    /\ UNCHANGED <<subVars, dictVars>>

\* __events__: cache[field, flag] = [] for the next enabled pair, until all are there
InitFill(t) ==
    /\ At(t, "init_fill")
    /\ IF SharedKeys \subseteq DOMAIN heap.regs[threads[t].events]
       THEN /\ threads' = Goto(t, "init_release")
            /\ heap' = heap
       ELSE /\ threads' = threads
            /\ heap' = [heap EXCEPT !.regs[threads[t].events] =
                            Put(@, CHOOSE k \in SharedKeys : k \notin DOMAIN @, << >>)]
    /\ UNCHANGED <<subVars, dictVars>>

\* __events__: the with-block ends; return cache
InitRelease(t) ==
    /\ At(t, "init_release")
    /\ heap' = [heap EXCEPT !.held[threads[t].lock] = 0]
    /\ threads' = Goto(t, "lookup")
    /\ UNCHANGED <<subVars, dictVars>>

\* subscribe: queue = events[key], KeyError becoming ValueError
Lookup(t) ==
    /\ At(t, "lookup")
    /\ threads' = IF SharedKey \in DOMAIN heap.regs[threads[t].events]
                  THEN Goto(t, "sub_acquire")
                  ELSE [threads EXCEPT ![t].pc = "done", ![t].exc = "ValueError"]
    /\ UNCHANGED <<heap, subVars, dictVars>>

\* subscribe: with mutex
SubAcquire(t) ==
    /\ At(t, "sub_acquire")
    /\ heap.held[threads[t].mutex] = 0
    /\ heap' = [heap EXCEPT !.held[threads[t].mutex] = t]
    /\ threads' = Goto(t, "append")
    /\ UNCHANGED <<subVars, dictVars>>

\* subscribe: if callback not in queue: events[key].append(callback)
SubAppend(t) ==
    /\ At(t, "append")
    /\ heap' = [heap EXCEPT !.regs[threads[t].events][SharedKey] =
                    IF InSeq(@, CallbackOf(t)) THEN @ ELSE append(@, CallbackOf(t))]
    /\ threads' = Goto(t, "sub_release")
    /\ UNCHANGED <<subVars, dictVars>>

\* subscribe: the with-block ends; return callback
SubRelease(t) ==
    /\ At(t, "sub_release")
    /\ heap' = [heap EXCEPT !.held[threads[t].mutex] = 0]
    /\ threads' = Goto(t, "done")
    /\ UNCHANGED <<subVars, dictVars>>

NextConc ==
    \E t \in Threads :
        \/ Start(t)
        \/ MutexGet(t)
        \/ MutexNew(t)
        \/ EventsGet(t)
        \/ InitMutex(t)
        \/ InitAcquire(t)
        \/ InitNew(t)
        \/ InitFill(t)
        \/ InitRelease(t)
        \/ Lookup(t)
        \/ SubAcquire(t)
        \/ SubAppend(t)
        \/ SubRelease(t)

----------------------------------------------------------------------------
(* Actions *)

\* no class statement has run yet
InitSub ==
    /\ phase = "defining"
    /\ cls \in ClassNames
    /\ klass = NoClass
    /\ obj = Fresh
    /\ ctx = << >>
    /\ last = NoOp
    /\ rank = [k \in AllKeys |-> << >>]
    /\ entry = << >>

Init == InitSub /\ InitDict /\ InitConc

\* the class statement
DefineClass ==
    /\ phase = "defining"
    /\ \E k \in {Class[cls]} :
            /\ phase' = IF k.exc = "none" THEN "defined" ELSE "failed"
            /\ klass' = IF k.exc = "none" THEN k ELSE NoClass
            /\ last' = [NoOp EXCEPT !.op = "class", !.exc = k.exc]
    /\ UNCHANGED <<cls, obj, ctx, rank, entry>>
    /\ UNCHANGED <<dictVars, concVars>>

\* o = Object()
NewInstance ==
    /\ phase = "defined"
    /\ phase' = "live"
    /\ obj' = Fresh
    /\ last' = [NoOp EXCEPT !.op = "new"]
    /\ UNCHANGED <<cls, klass, ctx, rank, entry>>
    /\ UNCHANGED <<dictVars, concVars>>

Subscribe(field, ev, cb) ==
    /\ phase = "live"
    /\ TotalSubs(obj) < MaxSubs
    /\ \E r \in {subscribe(Begin(obj), klass, field, ev, cb)} :
           /\ obj' = r.o
           /\ last' = Did("subscribe", field, ev, r)
           /\ rank' = RankSubscribe(rank, Reached(r.o, field, ev), cb)
    /\ UNCHANGED <<phase, cls, klass, ctx, entry>>
    /\ UNCHANGED <<dictVars, concVars>>

Unsubscribe(field, ev, cb) ==
    /\ phase = "live"
    /\ \E r \in {unsubscribe(Begin(obj), klass, field, ev, cb)} :
           /\ obj' = r.o
           /\ last' = Did("unsubscribe", field, ev, r)
           /\ rank' = RankUnsubscribe(rank, Reached(r.o, field, ev), cb)
    /\ UNCHANGED <<phase, cls, klass, ctx, entry>>
    /\ UNCHANGED <<dictVars, concVars>>

UnsubscribeAll(field, ev) ==
    /\ phase = "live"
    /\ \E r \in {unsubscribe_all(Begin(obj), klass, field, ev)} :
           /\ obj' = r.o
           /\ last' = Did("unsubscribe_all", field, ev, r)
           /\ rank' = IF r.exc = "none" THEN RankClear(rank, field, ev) ELSE rank
    /\ UNCHANGED <<phase, cls, klass, ctx, entry>>
    /\ UNCHANGED <<dictVars, concVars>>

Notify(field, ev) ==
    /\ phase = "live"
    /\ \E r \in {Run(Begin(obj), klass, Frame("notify", field, ev, 0))} :
           /\ obj' = r.o
           /\ last' = Did("notify", field, ev, r)
    /\ UNCHANGED <<phase, cls, klass, ctx, rank, entry>>
    /\ UNCHANGED <<dictVars, concVars>>

NotifyOnce(field, ev) ==
    /\ phase = "live"
    /\ \E r \in {Run(Begin(obj), klass, Frame("notify_once", field, ev, 0))} :
           /\ obj' = r.o
           /\ last' = Did("notify_once", field, ev, r)
    /\ UNCHANGED <<phase, cls, klass, ctx, rank, entry>>
    /\ UNCHANGED <<dictVars, concVars>>

\* reading self.is_muted
IsMuted ==
    /\ phase = "live"
    /\ obj' = is_muted(Begin(obj)).o
    /\ last' = [Did("is_muted", "", 0, Ok(obj)) EXCEPT
                    !.ret = IF is_muted(obj).val THEN "True" ELSE "False"]
    /\ UNCHANGED <<phase, cls, klass, ctx, rank, entry>>
    /\ UNCHANGED <<dictVars, concVars>>

Mute ==
    /\ phase = "live"
    /\ obj' = mute(Begin(obj))
    /\ last' = Did("mute", "", 0, Ok(obj))
    /\ UNCHANGED <<phase, cls, klass, ctx, rank, entry>>
    /\ UNCHANGED <<dictVars, concVars>>

Unmute ==
    /\ phase = "live"
    /\ obj' = unmute(Begin(obj))
    /\ last' = Did("unmute", "", 0, Ok(obj))
    /\ UNCHANGED <<phase, cls, klass, ctx, rank, entry>>
    /\ UNCHANGED <<dictVars, concVars>>

\* with self.suppressed(): -- entering the block
SuppressedEnter ==
    /\ phase = "live"
    /\ Len(ctx) < MaxNest
    /\ \E s \in {suppressed_enter(Begin(obj))} :
           /\ obj' = s.o
           /\ last' = Did("suppressed_enter", "", 0, Raise(obj, s.exc))
           /\ ctx' = IF s.exc = "none" THEN Append(ctx, s.saved) ELSE ctx
           /\ entry' = IF s.exc = "none" THEN Append(entry, Muted(obj)) ELSE entry
    /\ UNCHANGED <<phase, cls, klass, rank>>
    /\ UNCHANGED <<dictVars, concVars>>

\* leaving the innermost block, normally or by an exception
SuppressedExit ==
    /\ phase = "live"
    /\ Len(ctx) > 0
    /\ obj' = suppressed_exit(Begin(obj), ctx[Len(ctx)])
    /\ last' = Did("suppressed_exit", "", 0, Ok(obj))
    /\ ctx' = SubSeq(ctx, 1, Len(ctx) - 1)
    /\ entry' = SubSeq(entry, 1, Len(entry) - 1)
    /\ UNCHANGED <<phase, cls, klass, rank>>
    /\ UNCHANGED <<dictVars, concVars>>

\* o.field = value
SetField(field, value) ==
    /\ phase = "live"
    /\ \E r \in {Run(Begin(obj), klass, [Frame("setattr", field, 0, 0) EXCEPT !.val = value])} :
           /\ obj' = r.o
           /\ last' = Did("set", field, ON_SET, r)
    /\ UNCHANGED <<phase, cls, klass, ctx, rank, entry>>
    /\ UNCHANGED <<dictVars, concVars>>

\* o.method()
Call(name) ==
    /\ phase = "live"
    /\ \E r \in {Run(Begin(obj), klass, Frame("call", name, 0, 0))} :
           /\ obj' = r.o
           /\ last' = Did("call", name, 0, r)
    /\ UNCHANGED <<phase, cls, klass, ctx, rank, entry>>
    /\ UNCHANGED <<dictVars, concVars>>

\* o.field
GetField(field) ==
    /\ phase = "live"
    /\ \E g \in {GetAttr(obj, klass.attrs[field], field)} :
           /\ obj' = Begin(obj)
           /\ last' = [op |-> "get", field |-> field, ev |-> 0, exc |-> g.exc,
                       ret |-> "None", val |-> g.val]
    /\ UNCHANGED <<phase, cls, klass, ctx, rank, entry>>
    /\ UNCHANGED <<dictVars, concVars>>

\* del o.field
DelField(field) ==
    /\ phase = "live"
    /\ \E r \in {Run(Begin(obj), klass, Frame("delattr", field, 0, 0))} :
           /\ obj' = r.o
           /\ last' = Did("del", field, ON_DEL, r)
    /\ UNCHANGED <<phase, cls, klass, ctx, rank, entry>>
    /\ UNCHANGED <<dictVars, concVars>>

NextCore ==
    \/ DefineClass
    \/ NewInstance
    \/ \E k \in Inputs(cls), cb \in Callbacks : Subscribe(k[1], k[2], cb)
    \/ \E k \in Inputs(cls), cb \in Callbacks : Unsubscribe(k[1], k[2], cb)
    \/ \E k \in ClearInputs(cls) : UnsubscribeAll(k[1], k[2])
    \/ \E k \in Inputs(cls) : Notify(k[1], k[2])
    \/ \E k \in Inputs(cls) : NotifyOnce(k[1], k[2])
    \/ IsMuted
    \/ Mute
    \/ Unmute
    \/ \E f \in Properties(klass), v \in Values : SetField(f, v)
    \/ \E n \in Methods(klass) : Call(n)

\* the operations and the with-statement
Next ==
    \/ NextCore
    \/ SuppressedEnter
    \/ SuppressedExit

\* the classes instantiated when with-blocks are explored
WithClasses == {"Base", "Deco"}

InitWith == Init /\ cls \in WithClasses

InitBase == Init /\ cls = "Base"

Spec == Init /\ [][NextCore]_vars

SpecWith == InitWith /\ [][Next]_vars

\* the classes whose fields are read, assigned and deleted
FieldClasses == {"Base", "Auto", "Other"}

InitField == Init /\ cls \in FieldClasses

\* the fields of an instance used as attributes
NextField ==
    \/ DefineClass
    \/ NewInstance
    \/ \E k \in Inputs(cls), cb \in Callbacks : Subscribe(k[1], k[2], cb)
    \/ Mute
    \/ \E f \in Properties(klass), v \in Values : SetField(f, v)
    \/ \E f \in Properties(klass) : GetField(f)
    \/ \E f \in Properties(klass) : DelField(f)

SpecField == InitField /\ [][NextField]_vars

\* an IdentifierDict on its own
SpecDict == InitBase /\ [][NextDict]_vars

\* an IdentifierDict used through keys that are spelled differently
InitCase == InitSub /\ cls = "Base" /\ InitKeyed /\ InitConc

SpecCase == InitCase /\ [][NextCase]_vars

\* the threads on their own
SpecConc == InitBase /\ [][NextConc]_vars


----------------------------------------------------------------------------
(* Properties *)

SingleFlags == {EVENT_FLAGS[i] : i \in 1..Len(EVENT_FLAGS)}

\* the callbacks the operation itself invoked (not those invoked by a callback), in order
TopCalls(log) == SelectSeq(log, LAMBDA e : e.d = 0 /\ e.cb # "body")

\* the sequence of callbacks q is the subscribers of key in subscription order
InRankOrder(q, key) ==
    /\ Len(q) = Cardinality(DOMAIN rank'[key])
    /\ \A i \in 1..Len(q) : q[i].cb \in DOMAIN rank'[key] /\ rank'[key][q[i].cb] = i

\* C1: a notify(field, event) that returns on an unmuted instance has invoked exactly
\* the callbacks subscribed to (field, event), each once, in the order of their latest
\* subscription, whatever subscribe / unsubscribe / unsubscribe_all calls came before
C1_NotifyInSubscriptionOrder ==
    [][(/\ last'.op = "notify" /\ last'.exc = "none" /\ ~Muted(obj)
        /\ last'.ev \in SingleFlags)
            => InRankOrder(TopCalls(obj'.log), <<last'.field, last'.ev>>)]_vars

\* C1 witness: a notify returned after invoking two subscribers, the one subscribed
\* later ("rec" after "poke") last
C1_Witness ==
    /\ last.op = "notify" /\ last.exc = "none" /\ last.ev \in SingleFlags
    /\ Len(TopCalls(obj.log)) = 2
    /\ TopCalls(obj.log)[1].cb = "poke" /\ TopCalls(obj.log)[2].cb = "rec"
    /\ rank[<<last.field, last.ev>>] = [cb \in {"poke", "rec"} |-> IF cb = "poke" THEN 1 ELSE 2]

\* C4: a new instance is not muted; the mute state seen by the caller changes only in
\* mute, unmute and the entry and exit of a suppressed() block; on a muted instance
\* notify and notify_once return without invoking a callback and without changing the
\* instance; a notify that returns has invoked a callback exactly if the instance was
\* not muted and (field, event) has a subscriber
C4_MuteGatesNotify ==
    [][/\ (last'.op = "new" => ~Muted(obj'))
       /\ (Muted(obj') # Muted(obj) =>
                last'.op \in {"mute", "unmute", "suppressed_enter", "suppressed_exit"})
       /\ (last'.op \in {"notify", "notify_once"} /\ Muted(obj) =>
                /\ last'.exc = "none"
                /\ obj' = Begin(obj))
       /\ (last'.op = "notify" /\ last'.exc = "none" /\ last'.ev \in SingleFlags =>
                (Len(obj'.log) > 0 <=>
                    ~Muted(obj) /\ Len(Queue(obj', <<last'.field, last'.ev>>)) > 0))]_vars

\* C4 witness: a notify on a muted instance, for a pair that has a subscriber, returned
\* without invoking it
C4_Witness ==
    /\ last.op = "notify" /\ last.exc = "none"
    /\ Muted(obj)
    /\ Len(Queue(obj, <<last.field, last.ev>>)) > 0
    /\ obj.log = << >>

\* C5 (as claimed): entering a suppressed() block succeeds on an instance in any state and
\* leaves it muted, and leaving the block restores the mute state seen on entry
C5_SuppressedAnyState ==
    [][/\ (last'.op = "suppressed_enter" => last'.exc = "none" /\ Muted(obj'))
       /\ (last'.op = "suppressed_exit" => Muted(obj') = entry[Len(entry)])]_vars

\* C6: notify_once on an unmuted instance invokes no callback from within a callback
\* (every callback it logs was invoked by notify_once itself), never exhausts the call
\* stack, leaves the instance unmuted whether it returns or raises, and when it returns
\* it has invoked the subscribers of (field, event) in subscription order
C6_NotifyOnceSuppressesNested ==
    [][(last'.op = "notify_once" /\ ~Muted(obj)) =>
            /\ \A i \in 1..Len(obj'.log) : obj'.log[i].cb # "body" => obj'.log[i].d = 0
            /\ last'.exc # "RecursionError"
            /\ ~Muted(obj')
            /\ (last'.exc = "none" /\ last'.ev \in SingleFlags =>
                    InRankOrder(TopCalls(obj'.log), <<last'.field, last'.ev>>))]_vars

\* C6 witness: notify_once returned after a subscriber assigned a subscribable field that
\* itself has a subscriber, and after a second subscriber ran
C6_Witness ==
    /\ last.op = "notify_once" /\ last.exc = "none"
    /\ ~Muted(obj)
    /\ Len(TopCalls(obj.log)) = 2
    /\ TopCalls(obj.log)[1].cb = "poke"
    /\ klass.attrs[PokeTarget(klass)].fa # 0
    /\ Len(Queue(obj, <<PokeTarget(klass), ON_SET>>)) > 0

\* every event type of the mask is enabled on the member by the class statement of c or
\* of one of its base classes
Enabled(c, name, flags) ==
    \A i \in 1..Len(EVENT_FLAGS) :
        HasBit(flags, EVENT_FLAGS[i]) =>
            \E j \in DOMAIN MRO(c) :
                /\ name \in DOMAIN Own[MRO(c)[j]].registered
                /\ HasBit(Own[MRO(c)[j]].registered[name], EVENT_FLAGS[i])

\* C7 (as claimed): subscribe and unsubscribe succeed for every pair enabled on the class
\* or on a parent class and raise ValueError for every other pair; notify on an unmuted
\* instance does not raise ValueError for an enabled pair and raises for any other
C7_EnabledPairsSupported ==
    /\ (last.op \in {"subscribe", "unsubscribe"} =>
            last.exc = IF Enabled(cls, last.field, last.ev) THEN "none" ELSE "ValueError")
    /\ (last.op = "notify" /\ ~Muted(obj) =>
            IF Enabled(cls, last.field, last.ev) THEN last.exc # "ValueError"
            ELSE last.exc # "none" /\ (last.ev \in SingleFlags => last.exc = "ValueError"))

\* what reading the field returns
Stored(o, k, name) == GetAttr(o, k.attrs[name], name)

\* C8: assigning v to a field with ON_SET enabled stores v; on a muted instance nothing
\* else happens; on an unmuted instance the first callback invoked is an ON_SET
\* subscriber of the field and reads v, and when the assignment returns the ON_SET
\* subscribers have run in subscription order, each has read v, and the field holds v
C8_SetStoresThenNotifies ==
    [][\A v \in Values :
        (/\ last'.op = "set"
         /\ klass.attrs[last'.field].fa # 0
         /\ SetField(last'.field, v)) =>
            /\ (Muted(obj) =>
                    /\ last'.exc = "none"
                    /\ obj'.log = << >>
                    /\ Stored(obj', klass, last'.field) = [exc |-> "none", val |-> v])
            /\ (~Muted(obj) /\ Len(obj'.log) > 0 =>
                    /\ obj'.log[1].field = last'.field
                    /\ obj'.log[1].ev = ON_SET
                    /\ obj'.log[1].val = v)
            /\ (~Muted(obj) /\ last'.exc = "none" =>
                    /\ InRankOrder(TopCalls(obj'.log), <<last'.field, ON_SET>>)
                    /\ \A i \in 1..Len(TopCalls(obj'.log)) : TopCalls(obj'.log)[i].val = v
                    /\ Stored(obj', klass, last'.field) = [exc |-> "none", val |-> v])]_vars

\* C8 witness: an assignment on an unmuted instance returned after two subscribers read
\* the value that the field now holds
C8_Witness ==
    /\ last.op = "set" /\ last.exc = "none"
    /\ ~Muted(obj)
    /\ Len(TopCalls(obj.log)) = 2
    /\ \A i \in 1..2 : TopCalls(obj.log)[i].val = Stored(obj, klass, last.field).val

\* what the call itself did, in order: the callbacks it invoked and the method body
OwnSteps(log) == SelectSeq(log, LAMBDA e : e.d = 0)

\* steps is: the callbacks pre with ON_PRE_CALL, the body, the callbacks post with
\* ON_POST_CALL
AroundBody(steps, pre, post) ==
    /\ Len(steps) = Len(pre) + 1 + Len(post)
    /\ \A i \in 1..Len(pre) : steps[i].cb = pre[i] /\ steps[i].ev = ON_PRE_CALL
    /\ steps[Len(pre) + 1].cb = "body"
    /\ \A i \in 1..Len(post) :
            /\ steps[Len(pre) + 1 + i].cb = post[i]
            /\ steps[Len(pre) + 1 + i].ev = ON_POST_CALL

C10_DecoratorBothForms ==
    cls \in DecoratedClasses /\ last.op = "class" =>
        /\ last.exc = "none"
        /\ \A i \in DOMAIN Body(cls) : klass.attrs[Body(cls)[i].name].kind = "method"

\* C2 (as claimed): however the threads interleave, at most one registry is ever created
\* and the callback of every subscribe call that has returned is in the queue of the
\* registry that the instance's cache holds
C2_SingleRegistry ==
    /\ Len(heap.regs) <= 1
    /\ \A t \in Threads :
            threads[t].pc = "done" /\ threads[t].exc = "none" =>
                /\ heap.events # 0
                /\ SharedKey \in DOMAIN heap.regs[heap.events]
                /\ InSeq(heap.regs[heap.events][SharedKey], CallbackOf(t))

\* C3: an operation given a key of which no identifier can be made raises ValueError,
\* an operation given any other key does not, and every key in the dictionary is a
\* valid identifier
C3_OnlyIdentifiers ==
    /\ (dres.exc = "ValueError" <=> dres.bad)
    /\ \A i \in DOMAIN _object_value_ : isidentifier(_object_value_[i].k)

\* C3 witness: an update raised ValueError for its second key after storing the first,
\* next to an entry stored earlier
C3_Witness ==
    /\ dres.op = "update" /\ dres.bad /\ dres.exc = "ValueError"
    /\ Len(_object_value_) = 2
    /\ _object_value_[2].v = 1


\* str.lower on the letters of a key
Lower(s) == [i \in DOMAIN s |-> IF s[i] = "A" THEN "a" ELSE s[i]]

RECURSIVE Squeezed(_)
\* s without its trailing whitespace and with each run of whitespace cut to one character
Squeezed(s) ==
    IF Len(s) = 0 THEN << >>
    ELSE IF s[1] = " " /\ (Len(s) = 1 \/ s[2] = " ") THEN Squeezed(Tail(s))
    ELSE <<s[1]>> \o Squeezed(Tail(s))

\* ... and without its leading whitespace
Trimmed(s) ==
    IF Len(Squeezed(s)) > 0 /\ Squeezed(s)[1] = " " THEN Tail(Squeezed(s)) ELSE Squeezed(s)

\* k1 and k2 differ only in letter case or in leading, trailing or repeated inner whitespace
SameKey(k1, k2) == Lower(Trimmed(k1)) = Lower(Trimmed(k2))

\* the operation follows d[k1] = v and uses a key k2 that is another spelling of k1
AfterSet == dres.prev # NoSet /\ SameKey(dres.prev.key, dres.key)

\* no spelling of the key reads a value
Removed(key) ==
    \A k \in CaseKeys :
        SameKey(k, key) =>
            /\ get(_object_value_, Formatted[k]).ret = None
            /\ __getitem__(_object_value_, Formatted[k]).exc = "KeyError"

\* C13: IdentifierDict is case-insensitive.  After d[k1] = v, for every key k2 that
\* differs from k1 only in letter case or in leading, trailing or repeated inner
\* whitespace: d[k2] and d.get(k2) return v, del d[k2] removes the entry, and d[k2] = w
\* overwrites the one entry (the dictionary does not grow, and k1 then reads w).
C13_CaseInsensitive ==
    AfterSet =>
        /\ dres.exc = "none"
        /\ dres.op \in {"getitem", "get"} => dres.ret = dres.prev.val
        /\ dres.op = "delitem" =>
                /\ Len(_object_value_) = dres.n - 1
                /\ Removed(dres.prev.key)
        /\ dres.op = "setitem" =>
                /\ Len(_object_value_) = dres.n
                /\ __getitem__(_object_value_, Formatted[dres.prev.key]).ret = dres.val

\* an entry assigned as "a a" = 1 is overwritten with 2 through "A  a" while another
\* entry exists
C13_Witness ==
    /\ dres.op = "setitem"
    /\ dres.prev = [key |-> <<"a", " ", "a">>, val |-> 1]
    /\ dres.key = <<"A", " ", " ", "a">>
    /\ dres.val = 2
    /\ dres.n = 2
    /\ Len(_object_value_) = 2

\* C12: every callback is invoked with the instance, the member name and the flag of the
\* one event type that triggered that invocation: the event argument a callback receives
\* is a single event flag, and for the callbacks that notify / notify_once invoked itself
\* the member is the one notified and the flag is one of the bits of the notified mask;
\* also when the mask holds several event types
C12_CallbackGetsTriggeringFlag ==
    \A i \in DOMAIN obj.log :
        obj.log[i].cb # "body" =>
            /\ obj.log[i].ev \in SingleFlags
            /\ (obj.log[i].d = 0 /\ last.op \in {"notify", "notify_once"}) =>
                    /\ obj.log[i].field = last.field
                    /\ HasBit(last.ev, obj.log[i].ev)

\* the operation was on a field that was defined with no getter, setter or deleter
OnAutoField ==
    /\ last'.op \in {"get", "set", "del"}
    /\ klass.attrs[last'.field].kind = "auto"

\* no callback assigned a field during the operation
NoPoke(log) == \A i \in DOMAIN log : log[i].cb # "poke"

\* C11: a field defined with no getter, setter or deleter acts like an instance
\* attribute.  Reading it raises AttributeError before it is set and returns its value
\* otherwise; an assignment that returns leaves the assigned value to be read; deleting
\* an unset field raises AttributeError and changes nothing; deleting a set field is
\* not refused, and when it returns the value is gone (reading raises AttributeError,
\* unless a callback assigned it again) and then the ON_DEL subscribers, if the event
\* type is enabled and the instance is not muted, have run in subscription order.
C11_FieldActsLikeAttribute ==
    [][OnAutoField =>
        /\ (last'.op = "get" =>
                IF last'.field \in DOMAIN obj.cache
                THEN last'.exc = "none" /\ last'.val = obj.cache[last'.field]
                ELSE last'.exc = "AttributeError")
        /\ (last'.op = "set" /\ last'.exc = "none" =>
                \A v \in Values :
                    SetField(last'.field, v) =>
                        Stored(obj', klass, last'.field) = [exc |-> "none", val |-> v])
        /\ (last'.op = "del" /\ last'.field \notin DOMAIN obj.cache =>
                /\ last'.exc = "AttributeError"
                /\ obj' = Begin(obj))
        /\ (last'.op = "del" /\ last'.field \in DOMAIN obj.cache =>
                /\ last'.exc \in {"none", "RecursionError"}
                /\ (last'.exc = "none" =>
                        /\ (NoPoke(obj'.log) =>
                                Stored(obj', klass, last'.field).exc = "AttributeError")
                        /\ IF klass.attrs[last'.field].fb # 0 /\ ~Muted(obj)
                           THEN InRankOrder(TopCalls(obj'.log), <<last'.field, ON_DEL>>)
                           ELSE obj'.log = << >>))]_vars

====
